---- MODULE Spec2Model ----
(***************************************************************************)
(* A model of log_analyzer.py: one run of the command line tool.  The run  *)
(* checks its arguments, checks and opens the path, reads the file line by *)
(* line (decode, validate, aggregate), closes the file, ranks the error    *)
(* tally and prints the report.                                            *)
(*                                                                         *)
(* A line of the file is described by what reading and decoding it does:   *)
(*   k = "oserror"      the read of the line raises OSError                *)
(*   k = "unicodeerror" the read of the line raises UnicodeDecodeError     *)
(*   k = "jsonerror"    json.loads raises json.JSONDecodeError             *)
(*   k = "othererror"   json.loads raises another Exception (ValueError on *)
(*                      an over-long integer literal, RecursionError)      *)
(*   k = "value"        json.loads returns the JSON value val              *)
(* A JSON value is described by its kind and by what the validator reads   *)
(* of it: keys is the set of required names for which `name in value` is   *)
(* true (keys of an object, elements of an array, substrings of a string), *)
(* and for an object the kinds of the three fields, the endpoint name and  *)
(* the numeric value of status_code (Python's True is the integer 1).      *)
(***************************************************************************)
EXTENDS Integers, Sequences, FiniteSets

VARIABLES argc, pathKind, fileLen, pc, handle, opens, lines,
          total, errors, error_counts, result, stdout, stderr, exitCode

vars == <<argc, pathKind, fileLen, pc, handle, opens, lines,
          total, errors, error_counts, result, stdout, stderr, exitCode>>

(* ---------------------------- bounds ----------------------------------- *)

MaxLines == 3

MaxTopLines == 5

(* ------------------------ program constants ---------------------------- *)

TopN == 3

ErrorThreshold == 400

ExpectedArgc == 2

Required == {"timestamp", "endpoint", "status_code"}

(* --------------------------- JSON values ------------------------------- *)

JNon(kind, keys) ==
    [kind |-> kind, keys |-> keys, tsKind |-> "none", epKind |-> "none",
     ep |-> "", scKind |-> "none", sc |-> 0]

JObj(keys, tsKind, epKind, ep, scKind, sc) ==
    [kind |-> "object", keys |-> keys, tsKind |-> tsKind, epKind |-> epKind,
     ep |-> ep, scKind |-> scKind, sc |-> sc]

Entry(ep, sc) == JObj(Required, "string", "string", ep, "integer", sc)

Value(v) == [k |-> "value", val |-> v]

Failure(k) == [k |-> k, val |-> JNon("null", {})]

ReadFailures == {Failure("oserror"), Failure("unicodeerror")}

DecodeFailures == {Failure("jsonerror"), Failure("othererror")}

NonObjects ==
    {JNon(kind, {}) : kind \in {"integer", "number", "boolean", "null"}}
    \cup {JNon(kind, keys) : kind \in {"array", "string"}, keys \in {{}, Required}}

PartialObjects ==
    {JObj(Required \ {k}, "string", "string", "/a", "integer", 500) : k \in Required}

MistypedObjects ==
    { JObj(Required, "string", "integer", "", "integer", 500),
      JObj(Required, "string", "string", "/a", "number", 500),
      JObj(Required, "string", "string", "/a", "string", 0),
      JObj(Required, "integer", "string", "/a", "integer", 500),
      JObj(Required, "string", "string", "/a", "boolean", 1) }

Entries ==
    {Entry(ep, sc) : ep \in {"/a", "/b"}, sc \in {399, 400}}
    \cup {Entry("/a", -1), Entry("/a", 0), Entry("/b", 500)}

Lines ==
    ReadFailures \cup DecodeFailures
    \cup {Value(v) : v \in NonObjects \cup PartialObjects \cup MistypedObjects \cup Entries}

TopEndpoints == {"/a", "/b", "/c", "/d", "/e"}

TopLines ==
    {Failure("jsonerror"), Value(Entry("/a", 200))}
    \cup {Value(Entry(ep, 500)) : ep \in TopEndpoints}

(* ---------------------- validate_log_entry ----------------------------- *)

\* The body of the try block: ret is "True", "False", or "raise" when a
\* TypeError leaves the block; out is what the block printed.
ValidateBody(entry) ==
    IF entry.kind \in {"integer", "number", "boolean", "null"}
    THEN [ret |-> "raise", out |-> <<>>]
    ELSE IF ~(Required \subseteq entry.keys)
    THEN [ret |-> "False", out |-> <<"warn_missing_fields">>]
    ELSE IF entry.kind # "object"
    THEN [ret |-> "raise", out |-> <<>>]
    ELSE IF entry.epKind # "string"
    THEN [ret |-> "False", out |-> <<"warn_endpoint_type">>]
    ELSE IF entry.scKind \notin {"integer", "boolean"}
    THEN [ret |-> "False", out |-> <<"warn_status_type">>]
    ELSE [ret |-> "True", out |-> <<>>]

validate_log_entry_noexcept(entry) == ValidateBody(entry)

validate_log_entry(entry) ==
    LET r == ValidateBody(entry)
    IN  IF r.ret = "raise"
        THEN [ret |-> "False", out |-> r.out \o <<"warn_validating">>]
        ELSE r

(* --------------------------- aggregation ------------------------------- *)

IsErrorStrict(sc) == sc > ErrorThreshold

IsError(sc) == sc >= ErrorThreshold

\* error_counts[ep] += 1 on an insertion-ordered Counter
Inc(counts, ep) ==
    IF \E i \in DOMAIN counts : counts[i].ep = ep
    THEN [i \in DOMAIN counts |->
             IF counts[i].ep = ep THEN [ep |-> ep, n |-> counts[i].n + 1]
             ELSE counts[i]]
    ELSE Append(counts, [ep |-> ep, n |-> 1])

AggregateTallyOnly(t, e, c, entry) ==
    IF IsError(entry.sc)
    THEN [total |-> t + 1, errors |-> e, error_counts |-> Inc(c, entry.ep)]
    ELSE [total |-> t + 1, errors |-> e, error_counts |-> c]

Aggregate(t, e, c, entry) ==
    IF IsError(entry.sc)
    THEN [total |-> t + 1, errors |-> e + 1, error_counts |-> Inc(c, entry.ep)]
    ELSE [total |-> t + 1, errors |-> e, error_counts |-> c]

(* ------------------------- Counter.most_common ------------------------- *)

Min(a, b) == IF a <= b THEN a ELSE b

Remove(s, i) == SubSeq(s, 1, i - 1) \o SubSeq(s, i + 1, Len(s))

\* the first item, in insertion order, among those with the largest count
FirstLargest(items) ==
    CHOOSE i \in DOMAIN items :
        /\ \A j \in DOMAIN items : items[j].n <= items[i].n
        /\ \A j \in DOMAIN items : items[j].n = items[i].n => i <= j

RECURSIVE nlargest(_, _)
nlargest(n, items) ==
    IF n = 0 \/ items = <<>> THEN <<>>
    ELSE LET i == FirstLargest(items)
         IN  <<items[i]>> \o nlargest(n - 1, Remove(items, i))

most_common_unsorted(n, items) == SubSeq(items, 1, Min(n, Len(items)))

most_common(n, items) == nlargest(n, items)

(* ------------------------------ state ---------------------------------- *)

PathKinds == {"missing", "directory", "unopenable", "file"}

InitRun ==
    /\ pc = "start"
    /\ handle = "unopened"
    /\ opens = 0
    /\ lines = <<>>
    /\ total = 0
    /\ errors = 0
    /\ error_counts = <<>>
    /\ result = <<>>
    /\ stdout = <<>>
    /\ stderr = <<>>
    /\ exitCode = -1

Init ==
    /\ argc \in 1..3
    /\ pathKind \in PathKinds
    /\ fileLen \in 0..MaxLines
    /\ InitRun

InitTop ==
    /\ argc = ExpectedArgc
    /\ pathKind = "file"
    /\ fileLen \in 0..MaxTopLines
    /\ InitRun

(* ----------------------------- actions --------------------------------- *)

\* log_analyzer: wrong argument count
Usage ==
    /\ pc = "start"
    /\ argc # ExpectedArgc
    /\ stdout' = Append(stdout, "usage")
    /\ exitCode' = 1
    /\ pc' = "exited"
    /\ UNCHANGED <<argc, pathKind, fileLen, handle, opens, lines, total, errors,
                   error_counts, result, stderr>>

Abort(tag) ==
    /\ stdout' = Append(stdout, tag)
    /\ exitCode' = 1
    /\ pc' = "exited"

\* analyze_logs: path.exists() is false
PathMissing ==
    /\ pc = "start"
    /\ argc = ExpectedArgc
    /\ pathKind = "missing"
    /\ Abort("error_not_found")
    /\ UNCHANGED <<argc, pathKind, fileLen, handle, opens, lines, total, errors,
                   error_counts, result, stderr>>

\* analyze_logs: path.is_file() is false
PathNotFile ==
    /\ pc = "start"
    /\ argc = ExpectedArgc
    /\ pathKind = "directory"
    /\ Abort("error_read")
    /\ UNCHANGED <<argc, pathKind, fileLen, handle, opens, lines, total, errors,
                   error_counts, result, stderr>>

OpenFailNoExit ==
    /\ pc = "start"
    /\ argc = ExpectedArgc
    /\ pathKind = "unopenable"
    /\ stdout' = Append(stdout, "error_read")
    /\ pc' = "returned"
    /\ UNCHANGED <<argc, pathKind, fileLen, handle, opens, lines, total, errors,
                   error_counts, result, stderr, exitCode>>

\* analyze_logs: open() raises OSError
OpenFail ==
    /\ pc = "start"
    /\ argc = ExpectedArgc
    /\ pathKind = "unopenable"
    /\ Abort("error_read")
    /\ UNCHANGED <<argc, pathKind, fileLen, handle, opens, lines, total, errors,
                   error_counts, result, stderr>>

\* analyze_logs: open() succeeds
OpenOk ==
    /\ pc = "start"
    /\ argc = ExpectedArgc
    /\ pathKind = "file"
    /\ handle' = "open"
    /\ opens' = opens + 1
    /\ pc' = "loop"
    /\ UNCHANGED <<argc, pathKind, fileLen, lines, total, errors, error_counts,
                   result, stdout, stderr, exitCode>>

CanRead ==
    /\ pc = "loop"
    /\ handle = "open"
    /\ Len(lines) < fileLen

ReadFailLeak(l) ==
    /\ CanRead
    /\ l.k \in {"oserror", "unicodeerror"}
    /\ lines' = Append(lines, l)
    /\ Abort(IF l.k = "oserror" THEN "error_read" ELSE "error_unexpected")
    /\ UNCHANGED <<argc, pathKind, fileLen, handle, opens, total, errors,
                   error_counts, result, stderr>>

\* the read of the next line raises: the with block closes the file, the
\* outer handlers print and exit
ReadFail(l) ==
    /\ CanRead
    /\ l.k \in {"oserror", "unicodeerror"}
    /\ lines' = Append(lines, l)
    /\ handle' = "closed"
    /\ Abort(IF l.k = "oserror" THEN "error_read" ELSE "error_unexpected")
    /\ UNCHANGED <<argc, pathKind, fileLen, opens, total, errors,
                   error_counts, result, stderr>>

LineJsonErrorFatal(l) ==
    /\ CanRead
    /\ l.k = "jsonerror"
    /\ lines' = Append(lines, l)
    /\ handle' = "closed"
    /\ Abort("error_unexpected")
    /\ UNCHANGED <<argc, pathKind, fileLen, opens, total, errors,
                   error_counts, result, stderr>>

\* json.loads raises JSONDecodeError
LineJsonError(l) ==
    /\ CanRead
    /\ l.k = "jsonerror"
    /\ lines' = Append(lines, l)
    /\ stdout' = Append(stdout, "warn_invalid_json")
    /\ UNCHANGED <<argc, pathKind, fileLen, pc, handle, opens, total, errors,
                   error_counts, result, stderr, exitCode>>

\* any other Exception inside the per-line try block
LineUnexpected(l) ==
    /\ CanRead
    /\ \/ l.k = "othererror"
       \/ l.k = "value" /\ validate_log_entry(l.val).ret = "raise"
    /\ lines' = Append(lines, l)
    /\ stdout' = Append(stdout, "warn_unexpected")
    /\ UNCHANGED <<argc, pathKind, fileLen, pc, handle, opens, total, errors,
                   error_counts, result, stderr, exitCode>>

LineInvalidQuiet(l) ==
    /\ CanRead
    /\ l.k = "value"
    /\ validate_log_entry(l.val).ret = "False"
    /\ lines' = Append(lines, l)
    /\ stdout' = stdout \o validate_log_entry(l.val).out
    /\ UNCHANGED <<argc, pathKind, fileLen, pc, handle, opens, total, errors,
                   error_counts, result, stderr, exitCode>>

\* validate_log_entry returns False
LineInvalid(l) ==
    /\ CanRead
    /\ l.k = "value"
    /\ validate_log_entry(l.val).ret = "False"
    /\ lines' = Append(lines, l)
    /\ stdout' = stdout \o validate_log_entry(l.val).out \o <<"warn_invalid_entry">>
    /\ UNCHANGED <<argc, pathKind, fileLen, pc, handle, opens, total, errors,
                   error_counts, result, stderr, exitCode>>

\* validate_log_entry returns True
LineValid(l) ==
    /\ CanRead
    /\ l.k = "value"
    /\ validate_log_entry(l.val).ret = "True"
    /\ lines' = Append(lines, l)
    /\ stdout' = stdout \o validate_log_entry(l.val).out
    /\ LET a == Aggregate(total, errors, error_counts, l.val)
       IN  /\ total' = a.total
           /\ errors' = a.errors
           /\ error_counts' = a.error_counts
    /\ UNCHANGED <<argc, pathKind, fileLen, pc, handle, opens, result, stderr,
                   exitCode>>

\* the iterator is exhausted: the with block closes the file and
\* analyze_logs returns
EndOfFile ==
    /\ pc = "loop"
    /\ handle = "open"
    /\ Len(lines) = fileLen
    /\ handle' = "closed"
    /\ result' = most_common(TopN, error_counts)
    /\ pc' = "returned"
    /\ UNCHANGED <<argc, pathKind, fileLen, opens, lines, total, errors,
                   error_counts, stdout, stderr, exitCode>>

ReportHeader ==
    <<"report_title", "report_separator", "report_total", "report_errors",
      "report_top_header">>

\* log_analyzer prints the report and the interpreter exits
PrintReport ==
    /\ pc = "returned"
    /\ stdout' = stdout \o ReportHeader \o [i \in DOMAIN result |-> "report_endpoint"]
    /\ exitCode' = 0
    /\ pc' = "exited"
    /\ UNCHANGED <<argc, pathKind, fileLen, handle, opens, lines, total, errors,
                   error_counts, result, stderr>>

Step(l) ==
    \/ ReadFail(l)
    \/ LineJsonError(l)
    \/ LineUnexpected(l)
    \/ LineInvalid(l)
    \/ LineValid(l)

Next ==
    \/ Usage
    \/ PathMissing
    \/ PathNotFile
    \/ OpenFail
    \/ OpenOk
    \/ \E l \in Lines : Step(l)
    \/ EndOfFile
    \/ PrintReport

Spec == Init /\ [][Next]_vars

NextTop ==
    \/ OpenOk
    \/ \E l \in TopLines : LineJsonError(l) \/ LineValid(l)
    \/ EndOfFile
    \/ PrintReport

SpecTop == InitTop /\ [][NextTop]_vars

(* ------------------ what a file says, read off its lines --------------- *)

Idx == DOMAIN lines

IsReadFailure(l) == l.k \in {"oserror", "unicodeerror"}

\* lines for which validate_log_entry returned True
Accepted(l) == l.k = "value" /\ validate_log_entry(l.val).ret = "True"

\* lines that decode to an object with the three fields, each of its JSON type
StrictValid(l) ==
    /\ l.k = "value"
    /\ l.val.kind = "object"
    /\ Required \subseteq l.val.keys
    /\ l.val.tsKind = "string"
    /\ l.val.epKind = "string"
    /\ l.val.scKind = "integer"

ErrorLine(l) == Accepted(l) /\ l.val.sc >= ErrorThreshold

ErrIdx(ep) == {i \in Idx : ErrorLine(lines[i]) /\ lines[i].val.ep = ep}

ErrEndpoints == {lines[i].val.ep : i \in {j \in Idx : ErrorLine(lines[j])}}

FirstErr(ep) == CHOOSE i \in ErrIdx(ep) : \A j \in ErrIdx(ep) : i <= j

RECURSIVE SumCounts(_)
SumCounts(c) == IF c = <<>> THEN 0 ELSE c[1].n + SumCounts(Tail(c))

TallyOf(ep) ==
    IF \E i \in DOMAIN error_counts : error_counts[i].ep = ep
    THEN (CHOOSE r \in {error_counts[i] : i \in DOMAIN error_counts} : r.ep = ep).n
    ELSE 0

WarningTags ==
    {"warn_missing_fields", "warn_endpoint_type", "warn_status_type",
     "warn_validating", "warn_invalid_entry", "warn_invalid_json",
     "warn_unexpected"}

ErrorTags == {"usage", "error_not_found", "error_read", "error_unexpected"}

ReportTags == {ReportHeader[i] : i \in DOMAIN ReportHeader} \cup {"report_endpoint"}

Count(s, tags) == Cardinality({i \in DOMAIN s : s[i] \in tags})

Diagnostics == Count(stdout, WarningTags) + Count(stderr, WarningTags)

Finished == pc \in {"returned", "exited"}

(* ------------------------------ claims --------------------------------- *)

\* C1: after every prefix of the lines, errors <= total and the counts of
\* the error tally add up to errors.
C1_TallyInvariant ==
    /\ errors <= total
    /\ SumCounts(error_counts) = errors

C1_Witness ==
    /\ pc = "loop"
    /\ errors = 1
    /\ total = 2
    /\ Len(error_counts) = 1

\* C2: the total returned equals the number of lines that decode to an
\* object with timestamp a string, endpoint a string and status_code an
\* integer.
C2_TotalCountsStrictlyValid ==
    pc = "returned" => total = Cardinality({i \in Idx : StrictValid(lines[i])})

\* C3: errors is the number of accepted entries with status_code >= 400, the
\* tally of each endpoint is the number of accepted entries of that endpoint
\* with status_code >= 400, total is the number of accepted entries, and a
\* skipped line or an entry below 400 changes neither errors nor the tally.
C3_ErrorsAndTally ==
    /\ total = Cardinality({i \in Idx : Accepted(lines[i])})
    /\ errors = Cardinality({i \in Idx : ErrorLine(lines[i])})
    /\ \A ep \in {"/a", "/b"} : TallyOf(ep) = Cardinality(ErrIdx(ep))
    /\ \A i \in DOMAIN error_counts : error_counts[i].ep \in ErrEndpoints

C3_Witness ==
    /\ pc = "returned"
    /\ Len(lines) = 2
    /\ lines[1] = Value(Entry("/a", 399))
    /\ lines[2] = Value(Entry("/a", 400))
    /\ total = 2
    /\ errors = 1

\* C4: the returned list has min(3, k) pairs, each an endpoint with its error
\* count, ordered by count descending and among equal counts by the position
\* of the endpoint's first error line; every endpoint left out ranks after
\* every endpoint returned.
Ranks(e1, e2) ==
    \/ Cardinality(ErrIdx(e1)) > Cardinality(ErrIdx(e2))
    \/ /\ Cardinality(ErrIdx(e1)) = Cardinality(ErrIdx(e2))
       /\ FirstErr(e1) < FirstErr(e2)

C4_TopErrors ==
    Finished =>
        /\ Len(result) = Min(TopN, Cardinality(ErrEndpoints))
        /\ \A i \in DOMAIN result :
              /\ result[i].ep \in ErrEndpoints
              /\ result[i].n = Cardinality(ErrIdx(result[i].ep))
        /\ \A i, j \in DOMAIN result : i < j => Ranks(result[i].ep, result[j].ep)
        /\ \A e \in ErrEndpoints :
              (\A i \in DOMAIN result : result[i].ep # e)
                  => \A i \in DOMAIN result : Ranks(result[i].ep, e)

C4_Witness ==
    /\ pc = "returned"
    /\ Cardinality(ErrEndpoints) = 4
    /\ result = <<[ep |-> "/b", n |-> 2], [ep |-> "/a", n |-> 1], [ep |-> "/c", n |-> 1]>>

\* C5 as stated: once the file is open nothing but the end of the file ends
\* the loop; the run prints the report and exits with code 0.
C5_NoLineErrorIsFatal ==
    (pc = "exited" /\ opens > 0) =>
        /\ exitCode = 0
        /\ Len(lines) = fileLen
        /\ Count(stdout, ReportTags) > 0

\* C5 amended: once the file is open, a line whose decoding, validation or
\* aggregation fails never ends the loop; the run ends with code 1 and no
\* report exactly when the read of a line raised, and otherwise every line
\* is processed, the report is printed and the exit code is 0.
C5_OnlyReadErrorsAreFatal ==
    /\ pc \in {"loop", "returned"} =>
          /\ exitCode = -1
          /\ \A i \in Idx : ~IsReadFailure(lines[i])
    /\ (pc = "exited" /\ opens > 0) =>
          IF \E i \in Idx : IsReadFailure(lines[i])
          THEN /\ IsReadFailure(lines[Len(lines)])
               /\ exitCode = 1
               /\ Count(stdout, ReportTags) = 0
          ELSE /\ exitCode = 0
               /\ Len(lines) = fileLen
               /\ Count(stdout, ReportTags) > 0

C5_Witness ==
    /\ pc = "exited"
    /\ exitCode = 0
    /\ Len(lines) = 2
    /\ lines[1].k = "jsonerror"
    /\ lines[2].k = "value"
    /\ ~Accepted(lines[2])

\* C6: no per-line warning is ever written to standard output.
C6_NoWarningOnStdout == Count(stdout, WarningTags) = 0

\* C7: with one argument naming a path that is missing, a directory or not
\* openable, the run reads no line, prints no part of the report, and ends
\* with an error message and exit code 1.
C7_BadPathIsFatal ==
    (argc = ExpectedArgc /\ pathKind # "file") =>
        /\ pc \in {"start", "exited"}
        /\ lines = <<>>
        /\ handle = "unopened"
        /\ Count(stdout, ReportTags) = 0
        /\ pc = "exited" =>
              /\ exitCode = 1
              /\ Count(stdout, ErrorTags) = 1

C7_Witness ==
    /\ argc = ExpectedArgc
    /\ pathKind = "unopenable"
    /\ pc = "exited"

\* C8 as stated: the diagnostics emitted number the lines processed minus
\* total (one per skipped line, none per counted line).
C8_OneDiagnosticPerSkippedLine ==
    Diagnostics = Cardinality({i \in Idx : ~IsReadFailure(lines[i])}) - total

\* C8 amended: a line whose decoding fails gets exactly one diagnostic, a
\* line that fails validation exactly two (one from validate_log_entry, one
\* from analyze_logs), an accepted line none.
C8_DiagnosticsPerLine ==
    Diagnostics =
        Cardinality({i \in Idx : lines[i].k \in {"jsonerror", "othererror"}})
        + 2 * Cardinality({i \in Idx : lines[i].k = "value" /\ ~Accepted(lines[i])})

C8_Witness ==
    /\ Len(lines) = 2
    /\ lines[1].k = "jsonerror"
    /\ lines[2].k = "value"
    /\ ~Accepted(lines[2])
    /\ Diagnostics = 3

\* C9: the file is opened at most once, it is closed whenever analyze_logs
\* has returned or the process has exited after opening it, and nothing is
\* read from it once it is closed.
C9_HandleClosed ==
    /\ [](/\ opens <= 1
          /\ (opens = 0) = (handle = "unopened")
          /\ (Finished /\ opens > 0) => handle = "closed")
    /\ [][handle = "closed" => (lines' = lines /\ handle' = "closed")]_vars

C9_Witness ==
    /\ pc = "exited"
    /\ exitCode = 1
    /\ opens = 1
    /\ handle = "closed"

\* C10: validate_log_entry returns a boolean for every decoded value and
\* False for every value that is not an object, and no such line is counted.
C10_ValidatorTotal ==
    /\ \A i \in Idx :
          lines[i].k = "value" =>
              /\ validate_log_entry(lines[i].val).ret \in {"True", "False"}
              /\ lines[i].val.kind # "object"
                    => validate_log_entry(lines[i].val).ret = "False"
    /\ total <= Cardinality({i \in Idx : lines[i].k = "value" /\ lines[i].val.kind = "object"})
    /\ Count(stdout, {"warn_unexpected"}) = Cardinality({i \in Idx : lines[i].k = "othererror"})

C10_Witness ==
    /\ pc = "returned"
    /\ Len(lines) = 2
    /\ lines[1] = Value(JNon("string", Required))
    /\ lines[2] = Value(JNon("null", {}))
    /\ total = 0

====
